---- MODULE Spec2Model ----
(***************************************************************************)
(* barcode-gen: the preview endpoint (POST), its EAN-13 encoder            *)
(* (generateEAN13Barcode), the process-wide font cache (getFontBase64) and *)
(* the SVG post-processing of the other symbologies; and the page          *)
(* (BarcodeMultiGenerator): its list of items, the generate handlers and   *)
(* the zip export.                                                         *)
(*                                                                         *)
(* Strings are sequences of one-character strings, so that indexing,       *)
(* length and concatenation are those of the JavaScript strings.           *)
(***************************************************************************)
EXTENDS Integers, Sequences, FiniteSets, TLC

VARIABLES
  fontFile,          \* the font asset on disk: [exists, bytes]
  cachedFontBase64,  \* module-level cache: [isNull, str]
  fsReads,           \* number of fs.readFileSync calls made on the font asset
  call,              \* the latest generateEAN13Barcode invocation
  response,          \* the latest response of POST
  ref,               \* one earlier encoder invocation, kept for comparison
  barcodes,          \* the page's state `barcodes`: the list of items
  now,               \* Date.now() of the browser
  pendingAll,        \* the handleGenerateAll run awaiting its results
  pendingOne,        \* the handleGenerateOne calls awaiting their result
  zip                \* the latest handleDownloadZip call and its archive

serverVars == <<fontFile, cachedFontBase64, fsReads, call, response, ref>>
clientVars == <<barcodes, now, pendingAll, pendingOne, zip>>
vars == <<fontFile, cachedFontBase64, fsReads, call, response, ref, barcodes, now, pendingAll, pendingOne, zip>>

---------------------------------------------------------------------------
(* Bounds of the model *)

\* strides of the digit progressions of the generated 13-digit inputs
MaxStride == 1
\* longest input text handed to the encoder
MaxLen == 14
\* font-asset reads after which no further request is started
MaxReads == 3

---------------------------------------------------------------------------
(* JavaScript values *)

DIGITS == <<"0","1","2","3","4","5","6","7","8","9">>

\* the value parseInt gives for a character that is no digit
NaN == -1

\* String(undefined), appended by `+=` when a table lookup misses
UNDEFINED_STR == <<"u","n","d","e","f","i","n","e","d">>

ParseInt(c) ==
  IF \E d \in 0..9 : DIGITS[d + 1] = c
    THEN CHOOSE d \in 0..9 : DIGITS[d + 1] = c
    ELSE NaN

\* table[digit] followed by string concatenation
Lookup(table, digit) ==
  IF digit = NaN THEN UNDEFINED_STR ELSE table[digit + 1]

IsDigits(text) == \A i \in 1..Len(text) : ParseInt(text[i]) # NaN

---------------------------------------------------------------------------
(* Base64, as Buffer.toString('base64') *)

BASE64_ALPHABET ==
  <<"A","B","C","D","E","F","G","H","I","J","K","L","M","N","O","P","Q","R",
    "S","T","U","V","W","X","Y","Z","a","b","c","d","e","f","g","h","i","j",
    "k","l","m","n","o","p","q","r","s","t","u","v","w","x","y","z","0","1",
    "2","3","4","5","6","7","8","9","+","/">>

B64Char(n) == BASE64_ALPHABET[n + 1]

RECURSIVE ToBase64(_)
ToBase64(bytes) ==
  IF Len(bytes) = 0 THEN <<>>
  ELSE IF Len(bytes) = 1 THEN
    << B64Char(bytes[1] \div 4), B64Char((bytes[1] % 4) * 16), "=", "=" >>
  ELSE IF Len(bytes) = 2 THEN
    << B64Char(bytes[1] \div 4),
       B64Char((bytes[1] % 4) * 16 + bytes[2] \div 16),
       B64Char((bytes[2] % 16) * 4), "=" >>
  ELSE
    << B64Char(bytes[1] \div 4),
       B64Char((bytes[1] % 4) * 16 + bytes[2] \div 16),
       B64Char((bytes[2] % 16) * 4 + bytes[3] \div 64),
       B64Char(bytes[3] % 64) >>
    \o ToBase64(SubSeq(bytes, 4, Len(bytes)))

---------------------------------------------------------------------------
(* The font cache *)

NullString == [isNull |-> TRUE, str |-> <<>>]
Str(s) == [isNull |-> FALSE, str |-> s]

\* JavaScript truthiness of a `string | null`
Truthy(v) == ~v.isNull /\ v.str # <<>>

\* getFontBase64 without the cache test: every call reads the asset
GetFontBase64_NoCache(cache, file) ==
  IF file.exists
    THEN [value |-> ToBase64(file.bytes),
          cache |-> Str(ToBase64(file.bytes)), reads |-> 1]
    ELSE [value |-> <<>>, cache |-> cache, reads |-> 1]

\* getFontBase64(): the returned string, the cache it leaves and the number
\* of readFileSync calls it made
GetFontBase64(cache, file) ==
  IF Truthy(cache)
    THEN [value |-> cache.str, cache |-> cache, reads |-> 0]
    ELSE IF file.exists
      THEN [value |-> ToBase64(file.bytes),
            cache |-> Str(ToBase64(file.bytes)), reads |-> 1]
      ELSE [value |-> <<>>, cache |-> cache, reads |-> 1]

---------------------------------------------------------------------------
(* EAN-13 encoding tables *)

EAN13_L_CODES ==
  << <<"0","0","0","1","1","0","1">>,
     <<"0","0","1","1","0","0","1">>,
     <<"0","0","1","0","0","1","1">>,
     <<"0","1","1","1","1","0","1">>,
     <<"0","1","0","0","0","1","1">>,
     <<"0","1","1","0","0","0","1">>,
     <<"0","1","0","1","1","1","1">>,
     <<"0","1","1","1","0","1","1">>,
     <<"0","1","1","0","1","1","1">>,
     <<"0","0","0","1","0","1","1">> >>

EAN13_G_CODES ==
  << <<"0","1","0","0","1","1","1">>,
     <<"0","1","1","0","0","1","1">>,
     <<"0","0","1","1","0","1","1">>,
     <<"0","1","0","0","0","0","1">>,
     <<"0","0","1","1","1","0","1">>,
     <<"0","1","1","1","0","0","1">>,
     <<"0","0","0","0","1","0","1">>,
     <<"0","0","1","0","0","0","1">>,
     <<"0","0","0","1","0","0","1">>,
     <<"0","0","1","0","1","1","1">> >>

EAN13_R_CODES ==
  << <<"1","1","1","0","0","1","0">>,
     <<"1","1","0","0","1","1","0">>,
     <<"1","1","0","1","1","0","0">>,
     <<"1","0","0","0","0","1","0">>,
     <<"1","0","1","1","1","0","0">>,
     <<"1","0","0","1","1","1","0">>,
     <<"1","0","1","0","0","0","0">>,
     <<"1","0","0","0","1","0","0">>,
     <<"1","0","0","1","0","0","0">>,
     <<"1","1","1","0","1","0","0">> >>

EAN13_FIRST_DIGIT_PATTERNS ==
  << <<"L","L","L","L","L","L">>,
     <<"L","L","G","L","G","G">>,
     <<"L","L","G","G","L","G">>,
     <<"L","L","G","G","G","L">>,
     <<"L","G","L","L","G","G">>,
     <<"L","G","G","L","L","G">>,
     <<"L","G","G","G","L","L">>,
     <<"L","G","L","G","L","G">>,
     <<"L","G","L","G","G","L">>,
     <<"L","G","G","L","G","L">> >>

---------------------------------------------------------------------------
(* generateEAN13Barcode *)

SVG_WIDTH == 346
SVG_HEIGHT == 220
BAR_WIDTH == 3
GUARD_BAR_HEIGHT == 200
DATA_BAR_HEIGHT == 165
TEXT_Y == 185
START_X == 30

START_GUARD == <<"1","0","1">>

\* a centre guard written with the bars and spaces exchanged
CENTER_GUARD_Inverted == <<"1","0","1","0","1">>

CENTER_GUARD == <<"0","1","0","1","0">>
END_GUARD == <<"1","0","1">>

\* the left-group loop with the two branches of the parity test exchanged
RECURSIVE EncodeLeft_Swapped(_, _, _, _)
EncodeLeft_Swapped(text, pattern, i, barcodeBits) ==
  IF i >= 6 THEN barcodeBits
  ELSE
    LET digit == ParseInt(text[i + 2])
    IN  EncodeLeft_Swapped(text, pattern, i + 1,
          IF pattern[i + 1] = "G"
            THEN barcodeBits \o Lookup(EAN13_L_CODES, digit)
            ELSE barcodeBits \o Lookup(EAN13_G_CODES, digit))

\* the left-group loop, i being the zero-based loop index
RECURSIVE EncodeLeft(_, _, _, _)
EncodeLeft(text, pattern, i, barcodeBits) ==
  IF i >= 6 THEN barcodeBits
  ELSE
    LET digit == ParseInt(text[i + 2])
    IN  EncodeLeft(text, pattern, i + 1,
          IF pattern[i + 1] = "L"
            THEN barcodeBits \o Lookup(EAN13_L_CODES, digit)
            ELSE barcodeBits \o Lookup(EAN13_G_CODES, digit))

\* the right-group loop taking its patterns from the G table
RECURSIVE EncodeRight_GCodes(_, _, _)
EncodeRight_GCodes(text, i, barcodeBits) ==
  IF i >= 6 THEN barcodeBits
  ELSE
    LET digit == ParseInt(text[i + 8])
    IN  EncodeRight_GCodes(text, i + 1, barcodeBits \o Lookup(EAN13_G_CODES, digit))

\* the right-group loop reading text[i + 6] where the code reads text[i + 7]
RECURSIVE EncodeRight_OffByOne(_, _, _)
EncodeRight_OffByOne(text, i, barcodeBits) ==
  IF i >= 6 THEN barcodeBits
  ELSE
    LET digit == ParseInt(text[i + 7])
    IN  EncodeRight_OffByOne(text, i + 1, barcodeBits \o Lookup(EAN13_R_CODES, digit))

\* the right-group loop
RECURSIVE EncodeRight(_, _, _)
EncodeRight(text, i, barcodeBits) ==
  IF i >= 6 THEN barcodeBits
  ELSE
    LET digit == ParseInt(text[i + 8])
    IN  EncodeRight(text, i + 1, barcodeBits \o Lookup(EAN13_R_CODES, digit))

\* barcodeBits once the end guard is appended (text[0] being a digit)
BarcodeBits(text) ==
  LET firstDigit == ParseInt(text[1])
      pattern == EAN13_FIRST_DIGIT_PATTERNS[firstDigit + 1]
      left == EncodeLeft(text, pattern, 0, START_GUARD)
      centre == left \o CENTER_GUARD
      right == EncodeRight(text, 0, centre)
  IN  right \o END_GUARD

\* a guard test whose centre range is where the centre guard bits lie
IsGuard_Centre45(i) ==
  (i >= 0 /\ i <= 2) \/ (i >= 45 /\ i <= 49) \/ (i >= 92 /\ i <= 94)

\* the guard test of the bar loop, i being the zero-based bit index
IsGuard(i) ==
  (i >= 0 /\ i <= 2) \/ (i >= 42 /\ i <= 46) \/ (i >= 92 /\ i <= 94)

\* one path segment, `M${x} 0L${x} ${barBottom}`
Segment(currentX, barBottom) ==
  [mx |-> currentX, my |-> 0, lx |-> currentX, ly |-> barBottom]

\* the body of the bar loop: the loop variables i and currentX and the
\* segments pushed so far, after one more iteration
BarLoopBody(barcodeBits, st) ==
  [i |-> st.i + 1,
   currentX |-> st.currentX + BAR_WIDTH,
   pathSegments |->
     IF barcodeBits[st.i + 1] = "1"
       THEN Append(st.pathSegments,
              Segment(st.currentX,
                IF IsGuard(st.i) THEN GUARD_BAR_HEIGHT ELSE DATA_BAR_HEIGHT))
       ELSE st.pathSegments]

\* the bar loop, `for (i = 0; i < barcodeBits.length; i++)`, run for at most
\* n more iterations from the loop state st: the first half of them, then
\* the rest
RECURSIVE BarLoop(_, _, _)
BarLoop(barcodeBits, st, n) ==
  IF n = 0 \/ ~(st.i < Len(barcodeBits)) THEN st
  ELSE IF n = 1 THEN BarLoopBody(barcodeBits, st)
  ELSE BarLoop(barcodeBits, BarLoop(barcodeBits, st, n \div 2), n - (n \div 2))

\* pathSegments when the loop ends, started with i = 0 and
\* currentX = START_X (the loop ends within barcodeBits.length iterations)
PathSegments(barcodeBits) ==
  BarLoop(barcodeBits, [i |-> 0, currentX |-> START_X, pathSegments |-> <<>>], Len(barcodeBits)).pathSegments

DATA_URL_PREFIX == "data:font/truetype;charset=utf-8;base64,"
FONT_URL == "/fonts/ocrb/ocr-b-10-bt.ttf"

\* a src that is always the data URI, whatever getFontBase64 returned
FontDataUrl_AlwaysInline(fontBase64) ==
  [prefix |-> DATA_URL_PREFIX, payload |-> fontBase64]

\* fontDataUrl: the prefix and what follows it
FontDataUrl(fontBase64) ==
  IF fontBase64 # <<>>
    THEN [prefix |-> DATA_URL_PREFIX, payload |-> fontBase64]
    ELSE [prefix |-> FONT_URL, payload |-> <<>>]

NoSvg == [doc |-> "none"]

\* the template literal of the SVG: its interpolated parts, the fixed text
\* between them being the same in every document
EAN13Svg(text, fontSize, offsetLeft, offsetMiddle, offsetRight, pathSegments, fontDataUrl) ==
  [doc |-> "ean13",
   width |-> SVG_WIDTH, height |-> SVG_HEIGHT,
   viewBox |-> <<0, 0, SVG_WIDTH, SVG_HEIGHT>>,
   fontSrc |-> fontDataUrl,
   rect |-> <<SVG_WIDTH, SVG_HEIGHT>>,
   strokeWidth |-> BAR_WIDTH,
   d |-> pathSegments,
   firstDigit |-> [x |-> START_X - 16 - 5 + offsetLeft, y |-> TEXT_Y + 10,
                   fontSize |-> fontSize - 1,
                   text |-> <<text[1]>>],
   leftGroup |-> [x |-> START_X + 27 - 17 + offsetMiddle, y |-> TEXT_Y + 10,
                  fontSize |-> fontSize, text |-> SubSeq(text, 2, 7)],
   rightGroup |-> [x |-> START_X + 174 - 25 + 3 + offsetRight,
                   y |-> TEXT_Y + 10,
                   fontSize |-> fontSize, text |-> SubSeq(text, 8, 13)]]

JsError(name, message) == [isError |-> TRUE, name |-> name, message |-> message]
NoError == [isError |-> FALSE, name |-> "", message |-> ""]

LENGTH_ERROR == "EAN-13 must be 13 digits"

\* a length test that lets longer texts through
LengthOk_AtLeast(text) == Len(text) >= 13

\* the length test of the encoder
LengthOk(text) == Len(text) = 13

\* generateEAN13Barcode: how it ends (returns or throws, the catch block
\* rethrowing what it caught), the bits and bars built by then, the font
\* cache it leaves and the asset reads it made
GenerateEAN13Barcode(text, fontSize, offsetLeft, offsetMiddle, offsetRight, cache, file) ==
  IF ~LengthOk(text) THEN
    [outcome |-> "throw", error |-> JsError("Error", LENGTH_ERROR),
     barcodeBits |-> <<>>, pathSegments |-> <<>>, svg |-> NoSvg,
     cache |-> cache, reads |-> 0]
  ELSE IF ParseInt(text[1]) = NaN THEN
    \* pattern is undefined: pattern[0] raises a TypeError
    [outcome |-> "throw",
     error |-> JsError("TypeError", "Cannot read properties of undefined"),
     barcodeBits |-> START_GUARD, pathSegments |-> <<>>, svg |-> NoSvg,
     cache |-> cache, reads |-> 0]
  ELSE
    LET barcodeBits == BarcodeBits(text)
        pathSegments == PathSegments(barcodeBits)
        font == GetFontBase64(cache, file)
        fontDataUrl == FontDataUrl(font.value)
    IN  [outcome |-> "return", error |-> NoError,
         barcodeBits |-> barcodeBits, pathSegments |-> pathSegments,
         svg |-> EAN13Svg(text, fontSize, offsetLeft, offsetMiddle,
                          offsetRight, pathSegments, fontDataUrl),
         cache |-> font.cache, reads |-> font.reads]

---------------------------------------------------------------------------
(* Inputs *)

\* "8809560223070", the initial item of the generator page
SAMPLE_TEXT == <<"8","8","0","9","5","6","0","2","2","3","0","7","0">>

\* a 13-digit text: leading digit d0, left group a, a+b, a+2b, ... and a
\* right group that runs through every digit as a and d0 vary
MkText(d0, a, b) ==
  [i \in 1..13 |->
     DIGITS[1 + (IF i = 1 THEN d0
                 ELSE IF i <= 7 THEN (a + b * (i - 2)) % 10
                 ELSE (3 * a + d0 + 7 * b * (i - 8)) % 10)]]

Texts13 ==
  {SAMPLE_TEXT} \cup {MkText(d0, a, b) : d0 \in 0..9, a \in 0..9, b \in 1..MaxStride}

\* "", "1", "12", "123", ...: digit texts of every length up to MaxLen
LenText(n) == [i \in 1..n |-> DIGITS[1 + (i % 10)]]

OtherLengthTexts == {LenText(n) : n \in (0..MaxLen) \ {13}}

\* 13 characters, one of them no digit
NonDigitTexts == {[SAMPLE_TEXT EXCEPT ![p] = "X"] : p \in 1..13}

Texts == Texts13 \cup OtherLengthTexts \cup NonDigitTexts

\* the layout arguments: the defaults of the encoder and another choice
DefaultLayout == [fontSize |-> 31, offsetLeft |-> 0, offsetMiddle |-> 0, offsetRight |-> 0]

Layouts ==
  { DefaultLayout,
    [fontSize |-> 16, offsetLeft |-> -2, offsetMiddle |-> 3, offsetRight |-> 5] }

\* the font asset: absent (or unreadable), empty, or one of two contents
FONT_BYTES_A == <<0, 1, 0, 0, 0>>
FONT_BYTES_B == <<79, 84, 84, 79>>
NoFile == [exists |-> FALSE, bytes |-> <<>>]
File(bytes) == [exists |-> TRUE, bytes |-> bytes]
FontFiles == {NoFile, File(<<>>), File(FONT_BYTES_A), File(FONT_BYTES_B)}

\* the values the cache can hold: null, or the base64 of a content read
Caches == {NullString} \cup {Str(ToBase64(f.bytes)) : f \in FontFiles \ {NoFile}}

---------------------------------------------------------------------------
(* State *)

NoCall ==
  [phase |-> "none", text |-> <<>>,
   layout |-> DefaultLayout,
   outcome |-> "none", error |-> NoError, barcodeBits |-> <<>>,
   pathSegments |-> <<>>, svg |-> NoSvg, fontBefore |-> NullString]

NoResponse ==
  [kind |-> "none", status |-> 0, contentType |-> "", body |-> [kind |-> "none"], failedAt |-> "none"]

\* a finished invocation of the encoder, as `call` records it
Finished(text, layout, cacheBefore, r) ==
  [phase |-> "done", text |-> text, layout |-> layout,
   outcome |-> r.outcome, error |-> r.error, barcodeBits |-> r.barcodeBits,
   pathSegments |-> r.pathSegments, svg |-> r.svg, fontBefore |-> cacheBefore]

---------------------------------------------------------------------------
(* The page before it is mounted, and the server before it is started *)

\* an optional field (svgData?, error?, processedContents?) and undefined
Undefined == [defined |-> FALSE, val |-> <<>>]
Some(v) == [defined |-> TRUE, val |-> v]

NoRun == [active |-> FALSE, items |-> <<>>, answered |-> <<>>]
NoZip ==
  [phase |-> "none", selectedOnly |-> FALSE, itemsToDownload |-> <<>>,
   written |-> <<>>, files |-> {}, alert |-> "none"]

NoClient ==
  /\ barcodes = <<>> /\ now = 0
  /\ pendingAll = NoRun /\ pendingOne = {}
  /\ zip = NoZip

NoServer ==
  /\ fontFile = NoFile /\ cachedFontBase64 = NullString /\ fsReads = 0
  /\ call = NoCall /\ response = NoResponse /\ ref = NoCall

---------------------------------------------------------------------------
(* The encoder alone: one invocation on an input drawn by InitEncoder, in   *)
(* any state of the font asset and of the cache that earlier requests can  *)
(* have left; fsReads counts the reads of this invocation                  *)

InitEncoder ==
  /\ fontFile \in FontFiles
  /\ cachedFontBase64 \in Caches
  /\ fsReads = 0
  /\ \E text \in Texts, layout \in Layouts :
       call = [NoCall EXCEPT !.phase = "pending", !.text = text, !.layout = layout]
  /\ response = NoResponse
  /\ ref = NoCall
  /\ NoClient

EncoderCall ==
  /\ call.phase = "pending"
  /\ \E r \in {GenerateEAN13Barcode(call.text, call.layout.fontSize, call.layout.offsetLeft, call.layout.offsetMiddle, call.layout.offsetRight, cachedFontBase64, fontFile)} :
         /\ call' = Finished(call.text, call.layout, cachedFontBase64, r)
         /\ cachedFontBase64' = r.cache
         /\ fsReads' = fsReads + r.reads
  /\ UNCHANGED <<fontFile, response, ref>>
  /\ UNCHANGED clientVars

NextEncoder == EncoderCall

SpecEncoder == InitEncoder /\ [][NextEncoder]_vars

---------------------------------------------------------------------------
(* The preview endpoint *)

\* what bwipjs.toSVG gives for a symbol it accepts: the bars and a viewBox
\* of four numbers (or, were the library to change, none)
LIB_VIEWBOX == <<0, 0, 202, 144>>

LibSvg(viewBox) ==
  [doc |-> "bwip", bars |-> "library-path", viewBox |-> viewBox,
   dims |-> <<>>, fontStyle |-> <<>>, label |-> <<>>, closed |-> TRUE]

\* bwipjs.toSVG: it returns a document, or throws an Error or a string
LibResults ==
  { [outcome |-> "return", svg |-> LibSvg(LIB_VIEWBOX), thrown |-> NoError],
    [outcome |-> "return", svg |-> LibSvg(<<>>), thrown |-> NoError],
    [outcome |-> "throw", svg |-> NoSvg, thrown |-> JsError("Error", "bwipp.ean13badCheckDigit")],
    [outcome |-> "throw", svg |-> NoSvg, thrown |-> [isError |-> FALSE, name |-> "string", message |-> "bwip-js: bad input"]] }

\* addSVGDimensions: width and height from the viewBox, when there is one
AddSVGDimensions(svg) ==
  IF svg.viewBox # <<>>
    THEN [svg EXCEPT !.dims = <<svg.viewBox[3], svg.viewBox[4]>>]
    ELSE svg

\* addFontStyle: the <defs> block with the font-face rule, and what
\* getFontBase64 did
AddFontStyle(svg, cache, file) ==
  LET font == GetFontBase64(cache, file)
  IN  [svg |-> [svg EXCEPT !.fontStyle = <<FontDataUrl(font.value)>>],
       cache |-> font.cache, reads |-> font.reads]

\* addCenterText: the label at (vbWidth / 2, vbHeight - 2), x kept as the
\* fraction it is
AddCenterText(svg, text, fontSize) ==
  IF svg.viewBox = <<>> THEN svg
  ELSE [svg EXCEPT !.label = <<[x |-> <<svg.viewBox[3], 2>>, y |-> svg.viewBox[4] - 2,
                               fontSize |-> fontSize, text |-> text]>>]

\* processEAN13: the library's document is dropped, the encoder's returned
ProcessEAN13(svg, text, fontSize, offsetLeft, offsetMiddle, offsetRight, cache, file) ==
  GenerateEAN13Barcode(text, fontSize, offsetLeft, offsetMiddle, offsetRight, cache, file)

\* the message of the error BarcodeRequestSchema.parse throws when it
\* refuses the body, and that of request.json() on an unparsable body
SCHEMA_ERROR == "Invalid input"
JSON_ERROR == "Unexpected token in JSON"

\* the message the catch block gives for a thrown value that is no Error
\* (a Korean sentence in the source: "barcode generation failed")
FALLBACK_MESSAGE == "barcode generation failed"

NoThrow(svg, cache, reads, enc) ==
  [outcome |-> "return", thrown |-> NoError, failedAt |-> "none", svg |-> svg,
   cache |-> cache, reads |-> reads, enc |-> enc]

Throw(thrown, failedAt, cache, reads, enc) ==
  [outcome |-> "throw", thrown |-> thrown, failedAt |-> failedAt, svg |-> NoSvg,
   cache |-> cache, reads |-> reads, enc |-> enc]

NoEnc == [ran |-> FALSE, cacheBefore |-> NullString, r |-> <<>>]

\* the try block of POST: how it ends, the font cache it leaves, the asset
\* reads it made and the encoder invocation, if it made one. schemaOk is
\* whether BarcodeRequestSchema.parse accepts the body, lib what
\* bwipjs.toSVG does with the options and the contents
TryBlock(request, schemaOk, lib, cache, file) ==
  IF ~request.json THEN Throw(JsError("SyntaxError", JSON_ERROR), "json", cache, 0, NoEnc)
  ELSE IF ~schemaOk THEN Throw(JsError("ZodError", SCHEMA_ERROR), "schema", cache, 0, NoEnc)
  ELSE IF lib.outcome = "throw" THEN Throw(lib.thrown, "library", cache, 0, NoEnc)
  ELSE
    LET sized == AddSVGDimensions(lib.svg)
        styled == AddFontStyle(sized, cache, file)
    IN  IF request.symbology = "ean13" THEN
          LET r == ProcessEAN13(styled.svg, request.contents, request.fontSize, request.offsetLeft, request.offsetMiddle, request.offsetRight, styled.cache, file)
              enc == [ran |-> TRUE, cacheBefore |-> styled.cache, r |-> r]
          IN  IF r.outcome = "throw"
                THEN Throw(r.error, "encoder", r.cache, styled.reads + r.reads, enc)
                ELSE NoThrow(r.svg, r.cache, styled.reads + r.reads, enc)
        ELSE
          NoThrow(AddCenterText(styled.svg, request.contents, request.fontSize), styled.cache, styled.reads, NoEnc)

\* a catch block that logs and throws again, as the encoder's does
HandlerResult_Rethrow(t) ==
  IF t.outcome = "return"
    THEN [kind |-> "response", status |-> 200, contentType |-> "image/svg+xml",
          body |-> [kind |-> "svg", svg |-> t.svg], failedAt |-> t.failedAt]
    ELSE [kind |-> "exception", status |-> 0, contentType |-> "",
          body |-> [kind |-> "none"], failedAt |-> t.failedAt]

\* what POST gives: the NextResponse of the try block, or that of the catch
\* block (failedAt records where the try block was left)
HandlerResult(t) ==
  IF t.outcome = "return"
    THEN [kind |-> "response", status |-> 200, contentType |-> "image/svg+xml",
          body |-> [kind |-> "svg", svg |-> t.svg], failedAt |-> t.failedAt]
    ELSE [kind |-> "response", status |-> 400, contentType |-> "application/json",
          body |-> [kind |-> "json",
                    error |-> IF t.thrown.isError THEN t.thrown.message ELSE FALLBACK_MESSAGE],
          failedAt |-> t.failedAt]

\* a parsed request body
Request(contents, symbology, l) ==
  [json |-> TRUE, contents |-> contents, symbology |-> symbology, quietZone |-> 10,
   fontSize |-> l.fontSize, offsetLeft |-> l.offsetLeft,
   offsetMiddle |-> l.offsetMiddle, offsetRight |-> l.offsetRight]

\* the requests: an unparsable body; EAN-13 requests for the sample text
\* (under each layout), for another 13-digit text and for 12 digits; a
\* Code 128 request
Requests ==
  {[Request(<<>>, "ean13", DefaultLayout) EXCEPT !.json = FALSE]}
    \cup {Request(SAMPLE_TEXT, "ean13", l) : l \in Layouts}
    \cup {Request(MkText(9, 0, 1), "ean13", DefaultLayout),
          Request(LenText(12), "ean13", DefaultLayout),
          Request(LenText(3), "code128", DefaultLayout)}

LayoutOf(request) ==
  [fontSize |-> request.fontSize, offsetLeft |-> request.offsetLeft,
   offsetMiddle |-> request.offsetMiddle, offsetRight |-> request.offsetRight]

Init ==
  /\ fontFile \in FontFiles
  /\ cachedFontBase64 = NullString
  /\ fsReads = 0
  /\ call = NoCall
  /\ response = NoResponse
  /\ ref = NoCall
  /\ NoClient

\* one request handled by POST; `keep` decides whether this encoder
\* invocation is the one kept in ref for later comparison
POST(request, schemaOk, lib) ==
  /\ fsReads < MaxReads
  /\ \E t \in {TryBlock(request, schemaOk, lib, cachedFontBase64, fontFile)} :
       /\ response' = HandlerResult(t)
       /\ cachedFontBase64' = t.cache
       /\ fsReads' = fsReads + t.reads
       /\ call' = IF t.enc.ran
                     THEN Finished(request.contents, LayoutOf(request), t.enc.cacheBefore, t.enc.r)
                     ELSE call
       /\ \E keep \in BOOLEAN :
            ref' = IF keep /\ t.enc.ran /\ ref = NoCall
                     THEN Finished(request.contents, LayoutOf(request), t.enc.cacheBefore, t.enc.r)
                     ELSE ref
  /\ UNCHANGED fontFile
  /\ UNCHANGED clientVars

\* the font asset is replaced, emptied, removed or restored on disk
FontFileChange ==
  /\ \E f \in FontFiles : f # fontFile /\ fontFile' = f
  /\ UNCHANGED <<cachedFontBase64, fsReads, call, response, ref>>
  /\ UNCHANGED clientVars

Next ==
  \/ \E request \in Requests, schemaOk \in BOOLEAN, lib \in LibResults :
       POST(request, schemaOk, lib)
  \/ FontFileChange

Spec == Init /\ [][Next]_vars

---------------------------------------------------------------------------
(* The page: items and the zip export *)

\* items kept in one list
MaxItems == 3

EAN13 == <<"e","a","n","1","3">>
CODE128 == <<"c","o","d","e","1","2","8">>
CODE39 == <<"c","o","d","e","3","9">>

\* a number in a template literal: its decimal digits
RECURSIVE NumStr(_)
NumStr(n) ==
  IF n < 10 THEN <<DIGITS[n + 1]>>
  ELSE NumStr(n \div 10) \o <<DIGITS[(n % 10) + 1]>>

\* s.trim().length > 0
IsBlank(s) == \A i \in 1..Len(s) : s[i] \in {" ", "\n", "\t"}

\* truthiness of an optional string
TruthyOpt(o) == o.defined /\ o.val # <<>>

\* a BarcodeItem
Item(id, contents, symbology) ==
  [id |-> id, contents |-> contents, symbology |-> symbology, isSelected |-> FALSE,
   svgData |-> Undefined, error |-> Undefined, processedContents |-> Undefined]

\* the SVG text the endpoint answers for an item: it is a function of the
\* symbology and the contents
SvgText(item) ==
  <<"<", "s", "v", "g", " ">> \o item.symbology \o <<":">> \o item.contents

\* b.svgData && b.svgData.trim().length > 0
HasSvg(b) == TruthyOpt(b.svgData) /\ ~IsBlank(b.svgData.val)

\* the filter of handleDownloadZip
ItemsToDownload(items, selectedOnly) ==
  IF selectedOnly
    THEN SelectSeq(items, LAMBDA b : b.isSelected /\ HasSvg(b))
    ELSE SelectSeq(items, LAMBDA b : HasSvg(b))

\* `${item.symbology}_${item.processedContents || item.contents}`
BaseFilename(item) ==
  item.symbology \o <<"_">> \o
    (IF TruthyOpt(item.processedContents) THEN item.processedContents.val ELSE item.contents)

SVG_EXT == <<".", "s", "v", "g">>

\* zip.file(name, data): the entry of that name is set, replacing one of the
\* same name
ZipFile(files, name, data, id) ==
  {f \in files : f.name # name} \cup {[name |-> name, data |-> data, id |-> id]}

\* the body of the loop over itemsToDownload
ZipLoopBody(item, st) ==
  LET baseFilename == BaseFilename(item)
      filename == baseFilename \o SVG_EXT
  IN  IF filename \in DOMAIN st.filenameCount
        THEN LET count == st.filenameCount[filename] + 1
                 name == baseFilename \o <<"_">> \o NumStr(count) \o SVG_EXT
             IN  [filenameCount |-> [st.filenameCount EXCEPT ![filename] = count],
                  written |-> Append(st.written, [name |-> name, id |-> item.id]),
                  files |-> ZipFile(st.files, name, item.svgData.val, item.id)]
        ELSE [filenameCount |-> (filename :> 0) @@ st.filenameCount,
              written |-> Append(st.written, [name |-> filename, id |-> item.id]),
              files |-> ZipFile(st.files, filename, item.svgData.val, item.id)]

RECURSIVE ZipLoop(_, _, _)
ZipLoop(items, k, st) ==
  IF k > Len(items) THEN st
  ELSE ZipLoop(items, k + 1, IF HasSvg(items[k]) THEN ZipLoopBody(items[k], st) ELSE st)

\* handleDownloadZip(selectedOnly): the archive it builds and whether
\* zip.generateAsync gave the blob or threw
HandleDownloadZip(selectedOnly, generated) ==
  /\ zip.phase = "none"
  /\ LET itemsToDownload == ItemsToDownload(barcodes, selectedOnly)
         st == ZipLoop(itemsToDownload, 1, [filenameCount |-> <<>>, written |-> <<>>, files |-> {}])
     IN  zip' = IF Len(itemsToDownload) = 0
                  THEN [NoZip EXCEPT !.phase = "returned", !.selectedOnly = selectedOnly, !.alert = "nothing to download"]
                ELSE IF Cardinality(st.files) = 0
                  THEN [NoZip EXCEPT !.phase = "returned", !.selectedOnly = selectedOnly,
                                     !.itemsToDownload = itemsToDownload, !.alert = "no file added"]
                ELSE [phase |-> IF generated THEN "downloaded" ELSE "failed",
                      selectedOnly |-> selectedOnly, itemsToDownload |-> itemsToDownload,
                      written |-> st.written, files |-> st.files,
                      alert |-> IF generated THEN "none" ELSE "download failed"]
  /\ UNCHANGED <<barcodes, now, pendingAll, pendingOne>>
  /\ UNCHANGED serverVars

\* the items of a list to export: what an item is (symbology and contents)
\* and what it holds (nothing yet, a blank answer, an SVG, selected or not)
ItemKinds ==
  {<<CODE128, <<"A">>>>, <<CODE128, <<"A", "_", "1">>>>, <<CODE39, <<"A">>>>, <<EAN13, SAMPLE_TEXT>>}

Holdings == {"nothing", "blank", "svg", "selected svg"}

ExportItem(id, kind, holding) ==
  LET item == Item(id, kind[2], kind[1])
  IN  IF holding = "nothing" THEN item
      ELSE [item EXCEPT !.isSelected = (holding # "svg"),
                        !.svgData = IF holding = "blank" THEN Some(<<" ">>) ELSE Some(SvgText(item)),
                        !.processedContents = Some(kind[2])]

\* the lists of n items
ExportLists(n) ==
  {[k \in 1..n |-> ExportItem(k, kinds[k], holdings[k])] :
     kinds \in [1..n -> ItemKinds], holdings \in [1..n -> Holdings]}

InitZip ==
  /\ \E n \in 0..MaxItems : barcodes \in ExportLists(n)
  /\ now = 0
  /\ pendingAll = NoRun /\ pendingOne = {}
  /\ zip = NoZip
  /\ NoServer

NextZip == \E selectedOnly \in BOOLEAN, generated \in BOOLEAN : HandleDownloadZip(selectedOnly, generated)

SpecZip == InitZip /\ [][NextZip]_vars

---------------------------------------------------------------------------
(* The page: adding, editing and generating items *)

MAX_BARCODES == 50
\* Date.now() values after which no item is added
MaxClock == 3
\* handleGenerateOne calls in flight together
MaxPending == 1

\* what the user types into the contents field
TypedContents == {SAMPLE_TEXT, MkText(9, 0, 1)}

GENERATE_ERROR == <<"f", "a", "i", "l", "e", "d">>

\* generateBarcode(item): {svgData, processedContents} when the input is
\* accepted and the endpoint answers with an SVG, {error} otherwise
GenerateBarcode(item, answered) ==
  IF answered /\ ~IsBlank(item.contents)
    THEN [svgData |-> Some(SvgText(item)), error |-> Undefined, processedContents |-> Some(item.contents)]
    ELSE [svgData |-> Undefined, error |-> Some(GENERATE_ERROR), processedContents |-> Undefined]

\* result?.svgData and the like of a result that results.find did not find
NotFound == [svgData |-> Undefined, error |-> Undefined, processedContents |-> Undefined]

\* {...b, svgData: r.svgData, error: r.error, processedContents: r.processedContents}
WithResult(b, r) ==
  [b EXCEPT !.svgData = r.svgData, !.error = r.error, !.processedContents = r.processedContents]

Ids(items) == {items[k].id : k \in 1..Len(items)}

\* results.find((r) => r.id === b.id): the first one, or undefined
Find(results, id) ==
  LET hits == {k \in 1..Len(results) : results[k].id = id}
  IN  IF hits = {} THEN NotFound
      ELSE results[CHOOSE k \in hits : \A j \in hits : k <= j].result

InitClient ==
  /\ barcodes = <<Item(1, SAMPLE_TEXT, EAN13)>>
  /\ now = 2
  /\ pendingAll = NoRun /\ pendingOne = {}
  /\ zip = NoZip
  /\ NoServer

\* handleAddBarcode, the clock having advanced since the previous click
HandleAddBarcode ==
  /\ now < MaxClock
  /\ Len(barcodes) < MAX_BARCODES
  /\ barcodes' = Append(barcodes, Item(now, <<>>, EAN13))
  /\ now' = now + 1
  /\ UNCHANGED <<pendingAll, pendingOne, zip>>
  /\ UNCHANGED serverVars

\* handleDeleteBarcode(id)
HandleDeleteBarcode(id) ==
  /\ id \in Ids(barcodes)
  /\ Len(barcodes) > 1
  /\ barcodes' = SelectSeq(barcodes, LAMBDA b : b.id # id)
  /\ UNCHANGED <<now, pendingAll, pendingOne, zip>>
  /\ UNCHANGED serverVars

\* handleUpdateBarcode(id, {contents})
HandleUpdateBarcode(id, contents) ==
  /\ id \in Ids(barcodes)
  /\ barcodes' = [k \in 1..Len(barcodes) |->
                    IF barcodes[k].id = id THEN [barcodes[k] EXCEPT !.contents = contents]
                    ELSE barcodes[k]]
  /\ barcodes' # barcodes
  /\ UNCHANGED <<now, pendingAll, pendingOne, zip>>
  /\ UNCHANGED serverVars

\* handleGenerateOne(id) up to its await: the item is found and handed to
\* generateBarcode (the button is disabled while the contents are blank)
HandleGenerateOne(id) ==
  /\ Cardinality(pendingOne) < MaxPending
  /\ \E k \in 1..Len(barcodes) :
       /\ barcodes[k].id = id
       /\ \A j \in 1..(k - 1) : barcodes[j].id # id
       /\ ~IsBlank(barcodes[k].contents)
       /\ pendingOne' = pendingOne \cup {[id |-> id, item |-> barcodes[k]]}
  /\ pendingOne' # pendingOne
  /\ UNCHANGED <<barcodes, now, pendingAll, zip>>
  /\ UNCHANGED serverVars

\* handleGenerateOne after its await: the updater of setBarcodes
GenerateOneDone(p, answered) ==
  /\ p \in pendingOne
  /\ LET result == GenerateBarcode(p.item, answered)
     IN  barcodes' = [k \in 1..Len(barcodes) |->
                        IF barcodes[k].id = p.id THEN WithResult(barcodes[k], result)
                        ELSE barcodes[k]]
  /\ pendingOne' = pendingOne \ {p}
  /\ UNCHANGED <<now, pendingAll, zip>>
  /\ UNCHANGED serverVars

\* the results of a run: one per item handed to generateBarcode
Results(run) ==
  [k \in 1..Len(run.items) |->
     [id |-> run.items[k].id, result |-> GenerateBarcode(run.items[k], run.answered[k])]]

\* handleGenerateAll up to its await: the items of the list are handed to
\* generateBarcode, each request to be answered or not (the button is
\* disabled while a run is in flight)
HandleGenerateAll(answered) ==
  /\ ~pendingAll.active
  /\ pendingAll' = [active |-> TRUE, items |-> barcodes, answered |-> answered]
  /\ UNCHANGED <<barcodes, now, pendingOne, zip>>
  /\ UNCHANGED serverVars

\* handleGenerateAll after Promise.all: the updater of setBarcodes
GenerateAllDone ==
  /\ pendingAll.active
  /\ LET results == Results(pendingAll)
     IN  barcodes' = [k \in 1..Len(barcodes) |-> WithResult(barcodes[k], Find(results, barcodes[k].id))]
  /\ pendingAll' = NoRun
  /\ UNCHANGED <<now, pendingOne, zip>>
  /\ UNCHANGED serverVars

NextClient ==
  \/ HandleAddBarcode
  \/ \E id \in 1..MaxClock : HandleDeleteBarcode(id)
  \/ \E id \in 1..MaxClock, contents \in TypedContents : HandleUpdateBarcode(id, contents)
  \/ \E id \in 1..MaxClock : HandleGenerateOne(id)
  \/ \E p \in pendingOne, answered \in BOOLEAN : GenerateOneDone(p, answered)
  \/ \E answered \in [1..Len(barcodes) -> BOOLEAN] : HandleGenerateAll(answered)
  \/ GenerateAllDone

SpecClient == InitClient /\ [][NextClient]_vars

---------------------------------------------------------------------------
(* Section 4.1 of the specification: the tables as it lists them *)

\* a 7-bit pattern written as a decimal numeral of zeros and ones
Bits7(n) == [k \in 1..7 |-> IF (n \div (10 ^ (7 - k))) % 10 = 1 THEN "1" ELSE "0"]

Spec41_L ==
  <<0001101, 0011001, 0010011, 0111101, 0100011, 0110001, 0101111, 0111011, 0110111, 0001011>>

Spec41_G ==
  <<0100111, 0110011, 0011011, 0100001, 0011101, 0111001, 0000101, 0010001, 0001001, 0010111>>

Spec41_R ==
  <<1110010, 1100110, 1101100, 1000010, 1011100, 1001110, 1010000, 1000100, 1001000, 1110100>>

\* LLLLLL, LLGLGG, LLGGLG, LLGGGL, LGLLGG, LGGLLG, LGGGLL, LGLGLG, LGLGGL, LGGLGL
Spec41_Parity ==
  << <<"L","L","L","L","L","L">>, <<"L","L","G","L","G","G">>,
     <<"L","L","G","G","L","G">>, <<"L","L","G","G","G","L">>,
     <<"L","G","L","L","G","G">>, <<"L","G","G","L","L","G">>,
     <<"L","G","G","G","L","L">>, <<"L","G","L","G","L","G">>,
     <<"L","G","L","G","G","L">>, <<"L","G","G","L","G","L">> >>

---------------------------------------------------------------------------
(* Properties of the encoder *)

\* the encoder has been run on a text of 13 digits
Done13 == call.phase = "done" /\ Len(call.text) = 13 /\ IsDigits(call.text)

\* the digit at zero-based position k of the input
DigitAt(k) == ParseInt(call.text[k + 1])

\* the bits at the zero-based inclusive index range lo..hi
BitsAt(lo, hi) == SubSeq(call.barcodeBits, lo + 1, hi + 1)

\* C1: for every 13-digit input the encoder returns, having built exactly 95
\* bits, of which bits 0..2 are "101", bits 45..49 "01010", bits 92..94 "101"
C1_GuardLayout ==
  Done13 =>
    /\ call.outcome = "return"
    /\ Len(call.barcodeBits) = 3 + 42 + 5 + 42 + 3
    /\ BitsAt(0, 2) = <<"1","0","1">>
    /\ BitsAt(45, 49) = <<"0","1","0","1","0">>
    /\ BitsAt(92, 94) = <<"1","0","1">>

C1_Witness ==
  /\ Done13 /\ call.text = SAMPLE_TEXT /\ call.outcome = "return"
  /\ Len(call.barcodeBits) = 95
  /\ BitsAt(45, 49) = <<"0","1","0","1","0">>

\* C2: the code's L, G and parity tables are those of section 4.1, and for
\* every 13-digit input and left position i in 0..5 the bits 3+7i..9+7i are
\* the L-code of digit text[i+1] where the parity pattern of text[0] has
\* 'L' at i, and its G-code where the pattern has 'G'
C2_LeftGroup ==
  /\ EAN13_L_CODES = [d \in 1..10 |-> Bits7(Spec41_L[d])]
  /\ EAN13_G_CODES = [d \in 1..10 |-> Bits7(Spec41_G[d])]
  /\ EAN13_FIRST_DIGIT_PATTERNS = Spec41_Parity
  /\ Done13 =>
       \A i \in 0..5 :
         BitsAt(3 + 7 * i, 9 + 7 * i) =
           IF Spec41_Parity[DigitAt(0) + 1][i + 1] = "L"
             THEN Bits7(Spec41_L[DigitAt(i + 1) + 1])
             ELSE Bits7(Spec41_G[DigitAt(i + 1) + 1])

\* leading digit 9: L,G,G,L,G,L, a G-coded digit differing from its L-code
C2_Witness ==
  /\ Done13 /\ call.outcome = "return" /\ DigitAt(0) = 9
  /\ BitsAt(3, 9) = Bits7(Spec41_L[DigitAt(1) + 1])
  /\ BitsAt(10, 16) = Bits7(Spec41_G[DigitAt(2) + 1])
  /\ BitsAt(10, 16) # Bits7(Spec41_L[DigitAt(2) + 1])

\* the 7-bit patterns of the L and G tables of section 4.1
LeftPatterns == {Bits7(Spec41_L[d]) : d \in 1..10} \cup {Bits7(Spec41_G[d]) : d \in 1..10}

\* C3: for every 13-digit input and right position i in 0..5 the bits
\* 50+7i..56+7i are the R-code of digit text[7+i], whatever text[0] is, and
\* are no pattern of the L or G table
C3_RightGroup ==
  Done13 =>
    \A i \in 0..5 :
      /\ BitsAt(50 + 7 * i, 56 + 7 * i) = Bits7(Spec41_R[DigitAt(7 + i) + 1])
      /\ BitsAt(50 + 7 * i, 56 + 7 * i) \notin LeftPatterns

\* a leading digit whose pattern has G at left positions, the right group
\* still R-coded
C3_Witness ==
  /\ Done13 /\ call.outcome = "return" /\ DigitAt(0) = 6
  /\ BitsAt(50, 56) = Bits7(Spec41_R[DigitAt(7) + 1])
  /\ BitsAt(85, 91) = Bits7(Spec41_R[DigitAt(12) + 1])

---------------------------------------------------------------------------
(* Decoding a bit stream, as a scanner reads it *)

\* the (digit, parity letter) pairs whose L- or G-code is the block
LeftCandidates(block) ==
  {<<d, "L">> : d \in {e \in 0..9 : EAN13_L_CODES[e + 1] = block}}
    \cup {<<d, "G">> : d \in {e \in 0..9 : EAN13_G_CODES[e + 1] = block}}

\* the digits whose R-code is the block
RightCandidates(block) == {d \in 0..9 : EAN13_R_CODES[d + 1] = block}

\* every 13-digit sequence the 95 bits decode to: a (digit, letter) pair for
\* each left block, a leading digit whose parity pattern is the six letters,
\* a digit for each right block
Decodings(bits) ==
  LET left(i) == LeftCandidates(SubSeq(bits, 4 + 7 * i, 10 + 7 * i))
      right(i) == RightCandidates(SubSeq(bits, 51 + 7 * i, 57 + 7 * i))
      lefts == {<<c1, c2, c3, c4, c5, c6>> :
                  c1 \in left(0), c2 \in left(1), c3 \in left(2),
                  c4 \in left(3), c5 \in left(4), c6 \in left(5)}
      rights == {<<r1, r2, r3, r4, r5, r6>> :
                   r1 \in right(0), r2 \in right(1), r3 \in right(2),
                   r4 \in right(3), r5 \in right(4), r6 \in right(5)}
      leading(cs) == {d \in 0..9 : EAN13_FIRST_DIGIT_PATTERNS[d + 1] = [k \in 1..6 |-> cs[k][2]]}
  IN  UNION { { <<d0>> \o [k \in 1..6 |-> cs[k][1]] \o rs : d0 \in leading(cs), rs \in rights }
              : cs \in lefts }

\* C4: decoding the 95 bits built from a 13-digit input gives one digit and
\* one parity letter for each left block, one leading digit for the six
\* letters and one digit for each right block, and these are the 13 digits
\* of the input in their order
C4_RoundTrip ==
  (Done13 /\ call.outcome = "return" /\ Len(call.barcodeBits) = 95) =>
    /\ \A i \in 0..5 : Cardinality(LeftCandidates(BitsAt(3 + 7 * i, 9 + 7 * i))) = 1
    /\ \A i \in 0..5 : Cardinality(RightCandidates(BitsAt(50 + 7 * i, 56 + 7 * i))) = 1
    /\ Decodings(call.barcodeBits) = {[k \in 1..13 |-> DigitAt(k - 1)]}

C4_Witness ==
  /\ Done13 /\ call.text = SAMPLE_TEXT /\ call.outcome = "return"
  /\ Decodings(call.barcodeBits) = {<<8, 8, 0, 9, 5, 6, 0, 2, 2, 3, 0, 7, 0>>}

---------------------------------------------------------------------------
(* Properties of the bars *)

\* the zero-based indexes of the '1' bits, in increasing order
OneBits(bits) == SelectSeq([k \in 1..Len(bits) |-> k - 1], LAMBDA i : bits[i + 1] = "1")

\* the bit indexes of the start, centre and end guard in the 3+42+5+42+3 layout
GuardPatternBits == (0..2) \cup (45..49) \cup (92..94)

\* C5: for every 13-digit input, the bar of each '1' bit of a guard pattern
\* runs from y=0 to 200 and the bar of each '1' bit of a digit code from
\* y=0 to 165
C5_GuardBarsTall ==
  (Done13 /\ call.outcome = "return") =>
    \A k \in 1..Len(call.pathSegments) :
      LET s == call.pathSegments[k]
          i == (s.mx - 30) \div 3
      IN  /\ s.my = 0
          /\ s.ly = IF i \in GuardPatternBits THEN 200 ELSE 165

\* C6: for every 13-digit input, the path has one segment for each '1' bit
\* and none for a '0' bit, in increasing bit order; the segment of bit i
\* runs from (30+3i, 0) to (30+3i, h), h = 200 for i in [0,2], [42,46],
\* [92,94] and h = 165 for every other i
C6_Segments ==
  (Done13 /\ call.outcome = "return") =>
    LET ones == OneBits(call.barcodeBits)
    IN  /\ Len(call.pathSegments) = Len(ones)
        /\ call.svg.d = call.pathSegments
        /\ \A k \in 1..Len(ones) :
             LET i == ones[k]
                 h == IF i \in (0..2) \cup (42..46) \cup (92..94) THEN 200 ELSE 165
             IN  call.pathSegments[k] = [mx |-> 30 + 3 * i, my |-> 0, lx |-> 30 + 3 * i, ly |-> h]

\* "8809560223070": the bar of bit 44 (a digit bit in [42,46]) is 200 high,
\* the bar of bit 48 (a centre guard bit outside it) 165
C6_Witness ==
  /\ Done13 /\ call.text = SAMPLE_TEXT /\ call.outcome = "return"
  /\ \E k \in 1..Len(call.pathSegments) :
       call.pathSegments[k] = [mx |-> 30 + 3 * 44, my |-> 0, lx |-> 30 + 3 * 44, ly |-> 200]
  /\ \E k \in 1..Len(call.pathSegments) :
       call.pathSegments[k] = [mx |-> 30 + 3 * 48, my |-> 0, lx |-> 30 + 3 * 48, ly |-> 165]

\* C7: for every input whose length is not 13 the encoder throws the length
\* error, with no bit and no bar built, no SVG returned and the font asset
\* and its cache untouched
C7_LengthError ==
  (call.phase = "done" /\ Len(call.text) # 13) =>
    /\ call.outcome = "throw"
    /\ call.error = [isError |-> TRUE, name |-> "Error", message |-> "EAN-13 must be 13 digits"]
    /\ call.barcodeBits = <<>>
    /\ call.pathSegments = <<>>
    /\ call.svg = NoSvg
    /\ fsReads = 0
    /\ cachedFontBase64 = call.fontBefore

\* "123"
C7_Witness ==
  /\ call.phase = "done" /\ call.text = <<"1","2","3">>
  /\ call.outcome = "throw" /\ call.error.message = "EAN-13 must be 13 digits"

\* a text of 14 characters is refused as well
C7_WitnessLonger ==
  /\ call.phase = "done" /\ Len(call.text) = 14 /\ call.outcome = "throw"

---------------------------------------------------------------------------
(* Properties of the endpoint *)

\* a complete EAN-13 document for the contents: the fixed canvas, a font-face
\* src, bars from the start guard (x = 30) to the end guard (x = 30 + 3 * 94)
\* and the three labels spelling the 13 characters
CompleteEAN13(svg, contents) ==
  /\ svg.doc = "ean13"
  /\ Len(contents) = 13
  /\ svg.viewBox = <<0, 0, 346, 220>> /\ svg.rect = <<346, 220>>
  /\ svg.fontSrc.prefix \in {DATA_URL_PREFIX, FONT_URL}
  /\ Len(svg.d) > 0
  /\ svg.d[1].mx = 30 /\ svg.d[Len(svg.d)].mx = 30 + 3 * 94
  /\ svg.firstDigit.text \o svg.leftGroup.text \o svg.rightGroup.text = contents

\* a complete document of the generic library: its bars, closed, with the
\* font-face block
CompleteGeneric(svg) ==
  /\ svg.doc = "bwip"
  /\ svg.bars = "library-path" /\ svg.closed
  /\ Len(svg.fontStyle) = 1

C8_WitnessSuccess ==
  /\ response.kind = "response" /\ response.status = 200
  /\ response.body.kind = "svg" /\ response.body.svg.doc = "ean13"

\* the earlier invocation ref and the latest one have the same arguments
\* and both returned
SameArguments ==
  /\ ref.phase = "done" /\ call.phase = "done"
  /\ ref.outcome = "return" /\ call.outcome = "return"
  /\ ref.text = call.text /\ ref.layout = call.layout

\* C9: any two encoder invocations with identical arguments return the same
\* SVG, whatever ran between them and whatever the font cache held
C9_Deterministic == SameArguments => call.svg = ref.svg

\* C9 as amended: two invocations with identical arguments return SVGs that
\* differ at most in the font-face src, and the same SVG when the earlier
\* one already carried the font payload
C9_DeterministicButFont ==
  SameArguments =>
    /\ [call.svg EXCEPT !.fontSrc = ref.svg.fontSrc] = ref.svg
    /\ ref.svg.fontSrc.prefix = DATA_URL_PREFIX => call.svg = ref.svg

\* the earlier invocation carried the font payload, the asset has since been
\* replaced or removed, and the later one returns the same document
C9_Witness ==
  /\ SameArguments
  /\ ref.svg.fontSrc.prefix = DATA_URL_PREFIX
  /\ fontFile # File(FONT_BYTES_A) /\ ref.svg.fontSrc.payload = ToBase64(FONT_BYTES_A)
  /\ fsReads = 1
  /\ call.svg = ref.svg

\* C10: the font asset is read at most once
C10_ReadAtMostOnce == fsReads <= 1

\* C10 as amended: once the cache holds a non-empty payload, the asset is
\* not read again and the cache does not change
C10_NoReadOnceCached ==
  [][Truthy(cachedFontBase64) => (fsReads' = fsReads /\ cachedFontBase64' = cachedFontBase64)]_vars

\* an invocation of the encoder answered from the cache, one read made
C10_Witness ==
  /\ Truthy(cachedFontBase64) /\ fsReads = 1
  /\ call.phase = "done" /\ call.outcome = "return" /\ Truthy(call.fontBefore)
  /\ ref.phase = "done" /\ ref # call

\* the font-face src of a document: the encoder's fontDataUrl, or the one in
\* the block addFontStyle injected
FontSrc(svg) == IF svg.doc = "ean13" THEN svg.fontSrc ELSE svg.fontStyle[1]

InlineSrc(payload) == [prefix |-> DATA_URL_PREFIX, payload |-> payload]
UrlSrc == [prefix |-> FONT_URL, payload |-> <<>>]

\* a step of POST: the font asset is left as it was (FontFileChange always
\* changes it) and a response is there
PostStep == fontFile' = fontFile /\ response'.kind = "response"

\* C11: a request whose font read fails is not failed by it (a 400 comes
\* from the body, the schema, the library or the encoder's own checks) and its
\* SVG carries the relative URL as font-face src; when the read succeeds
\* the src is the inline base64 data URI of the font bytes
C11_FontFallback ==
  [][PostStep =>
       /\ response'.status = 400 => response'.failedAt \in {"json", "schema", "library", "encoder"}
       /\ response'.status = 200 =>
            FontSrc(response'.body.svg) =
              IF Truthy(cachedFontBase64) THEN InlineSrc(cachedFontBase64.str)
              ELSE IF fontFile.exists THEN InlineSrc(ToBase64(fontFile.bytes))
              ELSE UrlSrc]_vars

\* C11 as amended: the src is the inline data URI when the cache holds a
\* payload or the read returns at least one byte, and the relative URL when
\* the read fails or returns no byte
C11_FontFallbackNonEmpty ==
  [][PostStep =>
       /\ response'.status = 400 => response'.failedAt \in {"json", "schema", "library", "encoder"}
       /\ response'.status = 200 =>
            FontSrc(response'.body.svg) =
              IF Truthy(cachedFontBase64) THEN InlineSrc(cachedFontBase64.str)
              ELSE IF fontFile.exists /\ fontFile.bytes # <<>>
                THEN InlineSrc(ToBase64(fontFile.bytes))
              ELSE UrlSrc]_vars

\* a Code 128 request answered with 200 while the asset is missing and
\* nothing is cached: the read was made, it failed, the src is the URL
C11_Witness ==
  /\ ~fontFile.exists /\ ~Truthy(cachedFontBase64) /\ fsReads >= 1
  /\ response.kind = "response" /\ response.status = 200
  /\ response.body.svg.doc = "bwip"
  /\ FontSrc(response.body.svg) = UrlSrc

\* an EAN-13 request answered with the font bytes inline, read once
C11_WitnessInline ==
  /\ fontFile = File(FONT_BYTES_B) /\ fsReads = 1
  /\ response.kind = "response" /\ response.status = 200
  /\ response.body.svg.doc = "ean13"
  /\ FontSrc(response.body.svg) = InlineSrc(ToBase64(FONT_BYTES_B))

\* C12: the names written to the archive by handleDownloadZip are pairwise
\* distinct, the archive holds one entry per downloaded item, each with that
\* item's SVG, and the k-th repeat of a base name is written as base_k.svg
C12_DistinctFilenames ==
  zip.phase \in {"downloaded", "failed"} =>
    /\ \A i, j \in 1..Len(zip.written) : i # j => zip.written[i].name # zip.written[j].name
    /\ Cardinality(zip.files) = Len(zip.itemsToDownload)
    /\ \A i \in 1..Len(zip.itemsToDownload) :
         \E f \in zip.files : f.id = zip.itemsToDownload[i].id /\ f.data = zip.itemsToDownload[i].svgData.val
    /\ \A i \in 1..Len(zip.written) :
         LET base == BaseFilename(zip.itemsToDownload[i])
             k == Cardinality({j \in 1..(i - 1) : BaseFilename(zip.itemsToDownload[j]) = base})
         IN  zip.written[i].name = IF k = 0 THEN base \o SVG_EXT
                                    ELSE base \o <<"_">> \o NumStr(k) \o SVG_EXT

\* three items were downloaded and the archive holds fewer than three entries
C12_Overwritten ==
  /\ zip.phase = "downloaded"
  /\ Len(zip.itemsToDownload) = 3
  /\ Cardinality(zip.files) < 3

\* the step that completes a handleGenerateAll run
AllCompletes == pendingAll.active /\ ~pendingAll'.active

\* C13: when a handleGenerateAll run completes, every item that was in the
\* list when the run started gets that run's result for the item, and every
\* other item of the list (added while the run was in flight, generated
\* individually or not) is left as it was just before
C13_FrameCondition ==
  [][AllCompletes =>
       /\ Len(barcodes') = Len(barcodes)
       /\ \A k \in 1..Len(barcodes) :
            barcodes'[k] =
              IF barcodes[k].id \in Ids(pendingAll.items)
                THEN WithResult(barcodes[k], Find(Results(pendingAll), barcodes[k].id))
                ELSE barcodes[k]]_vars

\* a run is in flight and an item added after its start already holds the
\* SVG of its own handleGenerateOne
C13_AddedAndGenerated ==
  /\ pendingAll.active
  /\ \E k \in 1..Len(barcodes) :
       /\ barcodes[k].id \notin Ids(pendingAll.items)
       /\ TruthyOpt(barcodes[k].svgData)

====
